---- MODULE Spec2Model ----
(***************************************************************************)
(* Model of SimulationSellingService                                       *)
(* (src/src/providers/simulationSellingService.ts): the RabbitMQ consumer, *)
(* the per-message sell path, the scan / direct-trigger path that starts   *)
(* remote processes, and the runningProcesses set (the In-Flight Tracker). *)
(*                                                                         *)
(* JavaScript runs one handler at a time; a handler gives up control only  *)
(* at an `await`.  Every action below is the code that runs between two    *)
(* awaits on real I/O (fetch, market data); awaits that resume in the same *)
(* microtask chain are part of the action that precedes them.              *)
(*                                                                         *)
(* JavaScript numbers are modelled as exact rationals plus NaN; IEEE       *)
(* rounding is outside the model.                                          *)
(***************************************************************************)
EXTENDS Integers, Sequences, FiniteSets, TLC

(***************************************************************************)
(* Bounds of the model.                                                    *)
(***************************************************************************)
\* queue messages delivered to the consumer
MaxMsgs == 2
\* calls of startListeners / processTokenPerformance
MaxTriggers == 2

\* queue messages in the specifications that add the report task or the
\* startup to the service
FewMsgs == 1
\* largest `retries` updateTradeInBe is called with in SpecSync
MaxRetries == 4

Msgs == 1..MaxMsgs

(***************************************************************************)
(* JavaScript numbers: a rational n/d (d > 0, lowest terms) or NaN.        *)
(***************************************************************************)
NaN == [nan |-> TRUE, n |-> 0, d |-> 1]

Abs(x) == IF x < 0 THEN -x ELSE x

RECURSIVE GCD(_, _)
GCD(a, b) == IF b = 0 THEN a ELSE GCD(b, a % b)

Rat(n, d) ==
    LET g == GCD(Abs(n), d)
    IN  [nan |-> FALSE, n |-> n \div g, d |-> d \div g]

Num(n) == Rat(n, 1)

\* x - y
JSub(x, y) ==
    IF x.nan \/ y.nan THEN NaN
    ELSE Rat(x.n * y.d - y.n * x.d, x.d * y.d)

\* x * y
JMul(x, y) ==
    IF x.nan \/ y.nan THEN NaN
    ELSE Rat(x.n * y.n, x.d * y.d)

\* x / y; every divisor of the model is a non-zero number or NaN (a zero
\* divisor, Infinity in JavaScript, does not arise and is given as NaN)
JDiv(x, y) ==
    IF x.nan \/ y.nan \/ y.n = 0 THEN NaN
    ELSE IF y.n > 0 THEN Rat(x.n * y.d, x.d * y.n)
    ELSE Rat(-(x.n * y.d), x.d * (-y.n))

\* x === 0
IsZero(x) == ~x.nan /\ x.n = 0

\* x < y
JLt(x, y) == ~x.nan /\ ~y.nan /\ x.n * y.d < y.n * x.d

\* `v || 0` on a number: 0 and NaN are falsy
OrZero(x) == IF x.nan \/ x.n = 0 THEN Num(0) ELSE x

(***************************************************************************)
(* The world outside the service: positions, buys, recommendations and the *)
(* market data of each asset.                                              *)
(***************************************************************************)
Assets == {"ABC", "XYZ"}

\* a token address that is absent, of the wrong type, or has no position
BadAddress == "<none>"

Tokens == Assets \cup {BadAddress}

\* sell_recommender_id of a message: a recommender id or null
NullRec == "<null>"

RecIds == {"rec1", NullRec}

\* amount of a message: a number or absent (undefined, NaN in arithmetic)
Amounts == {Num(100), NaN}

InitialBalance == [a \in Assets |-> IF a = "ABC" THEN Num(200) ELSE Num(100)]

\* buy trade records of the Ledger (simulation trades)
Buys ==
    { [id |-> "b1", token |-> "ABC", recommender |-> "rec1", buy_timeStamp |-> 1,
       buy_value_usd |-> Num(40), buy_market_cap |-> Num(900), buy_liquidity |-> Num(150)],
      [id |-> "b2", token |-> "ABC", recommender |-> "rec1", buy_timeStamp |-> 2,
       buy_value_usd |-> Num(50), buy_market_cap |-> Num(1000), buy_liquidity |-> Num(200)],
      [id |-> "b3", token |-> "XYZ", recommender |-> "rec1", buy_timeStamp |-> 1,
       buy_value_usd |-> Num(30), buy_market_cap |-> Num(500), buy_liquidity |-> Num(80)] }

NoTrade == "<no trade>"

BuyOf(id) == CHOOSE b \in Buys : b.id = id

\* recommendations of each asset as getRecommendationsByToken returns them,
\* most recent first
Recommendations ==
    [a \in Assets |->
        IF a = "ABC"
        THEN <<[recommenderId |-> "rec2", timestamp |-> 2],
               [recommenderId |-> "rec1", timestamp |-> 1]>>
        ELSE <<>>]

\* processed token data of each asset: trade price, 24h price change in
\* percent (<<>> when the field is null or undefined) and DexScreener pairs
Market ==
    [a \in Assets |->
        IF a = "ABC"
        THEN [price |-> Rat(6, 10),
              trade_24h_change_percent |-> <<Num(-60)>>,
              pairs |-> <<[marketCap |-> Num(1200), liquidity |-> Num(180)]>>]
        ELSE [price |-> Num(2), trade_24h_change_percent |-> <<>>, pairs |-> <<>>]]

\* prices.solana.usd, a string read with parseFloat
SolPrice == Num(150)

(***************************************************************************)
(* Performance Ledger (TrustScoreDatabase): its code is not part of the    *)
(* sources; these operators follow the interface the specification gives.  *)
(***************************************************************************)
\* getTokenPerformance: the position of a token address, or null
HasPosition(token) == token \in Assets

\* getOrCreateRecommenderWithTelegramId(sell_recommender_id || '').id
RecommenderId(rec) == IF rec = NullRec THEN "" ELSE rec

\* getLatestTradePerformance: the most recent buy of the asset and
\* recommender that has no corresponding sell, or NoTrade
GetLatestOpenTrade(sold, token, recommender) ==
    LET open == {b \in Buys : /\ b.token = token
                              /\ b.recommender = recommender
                              /\ ~\E s \in sold : s.buy = b.id}
    IN  IF open = {} THEN NoTrade
        ELSE (CHOOSE b \in open :
                \A c \in open : c.buy_timeStamp <= b.buy_timeStamp).id

\* getAllTokenPerformancesWithBalance: the assets with a non-zero balance
PositionsWithBalance(bal) == {a \in Assets : ~IsZero(bal[a])}

(***************************************************************************)
(* updateSellDetails, lines 388-424: the sell economics.                   *)
(***************************************************************************)
MarketCapOf(data) ==
    IF Len(data.pairs) = 0 THEN Num(0) ELSE OrZero(data.pairs[1].marketCap)

LiquidityOf(data) ==
    IF Len(data.pairs) = 0 THEN Num(0) ELSE OrZero(data.pairs[1].liquidity)

\* the subtraction of line 402 with its operands swapped
ProfitUsdSwapped(sell_value_usd, buy) == JSub(buy.buy_value_usd, sell_value_usd)

\* profit_usd, line 402
ProfitUsd(sell_value_usd, buy) == JSub(sell_value_usd, buy.buy_value_usd)

\* `v ?? 0`: only null and undefined give 0
OrDefaultZero(v) == IF Len(v) = 0 THEN Num(0) ELSE v[1]

\* the threshold of line 467
RapidDumpThreshold == Num(-50)

\* the comparison of line 467 as `<=`
IsRapidDumpAtMost(data) ==
    LET change == OrDefaultZero(data.trade_24h_change_percent)
    IN  ~change.nan /\ ~JLt(RapidDumpThreshold, change)

\* isRapidDump, line 467
IsRapidDump(data) ==
    JLt(OrDefaultZero(data.trade_24h_change_percent), RapidDumpThreshold)

SellDetailsData(amount, data, solPrice, buy) ==
    LET sell_value_usd == JMul(amount, data.price)
        marketCap == MarketCapOf(data)
        liquidity == LiquidityOf(data)
        profit_usd == ProfitUsd(sell_value_usd, buy)
    IN  [sell_price |-> data.price,
         sell_amount |-> amount,
         received_sol |-> JDiv(amount, solPrice),
         sell_value_usd |-> sell_value_usd,
         profit_usd |-> profit_usd,
         profit_percent |-> JMul(JDiv(profit_usd, buy.buy_value_usd), Num(100)),
         sell_market_cap |-> marketCap,
         market_cap_change |-> JSub(marketCap, buy.buy_market_cap),
         sell_liquidity |-> liquidity,
         liquidity_change |-> JSub(liquidity, buy.buy_liquidity),
         rapidDump |-> IsRapidDump(data)]

(***************************************************************************)
(* Remote backend: startProcessInTheSonarBackend.                          *)
(***************************************************************************)
\* what the start request can end in
StartOutcomes == {"ok_object", "ok_falsy_body", "ok_not_json", "http_error", "network_error"}

\* the value startProcessInTheSonarBackend returns
StartProcessResult(outcome) ==
    CASE outcome = "ok_object"     -> "object"     \* response.json(), an object
      [] outcome = "ok_falsy_body" -> "falsy"      \* response.json() is null, false, 0 or ""
      [] outcome = "ok_not_json"   -> "null"       \* response.json() throws, caught
      [] outcome = "http_error"    -> "undefined"  \* !response.ok, bare return
      [] outcome = "network_error" -> "null"       \* fetch throws, caught

\* the test of line 257 as `processResult !== undefined`
AcceptedUnlessUndefined(processResult) == processResult # "undefined"

\* if (processResult)
Accepted(processResult) == processResult = "object"

(***************************************************************************)
(* Queue messages.                                                         *)
(***************************************************************************)
\* the content of a message: text that is not JSON, a JSON object without a
\* usable tokenAddress (such as {tokenAddress: 123}), or a JSON object that
\* names an asset and whose amount and sell_recommender_id may be absent
RawMessages ==
    {[json |-> FALSE, tokenAddress |-> BadAddress, amount |-> NaN,
      sell_recommender_id |-> NullRec],
     [json |-> TRUE, tokenAddress |-> BadAddress, amount |-> NaN,
      sell_recommender_id |-> NullRec]}
    \cup [json : {TRUE}, tokenAddress : Assets, amount : Amounts,
          sell_recommender_id : RecIds]

NoMessage == [json |-> FALSE, tokenAddress |-> BadAddress, amount |-> NaN,
              sell_recommender_id |-> NullRec]

(***************************************************************************)
(* State.                                                                  *)
(***************************************************************************)
VARIABLES
    balance,           \* Ledger: balance of each position
    sells,             \* Ledger: sell trade records, each naming its buy
    transactions,      \* Ledger: number of transactions added
    runningProcesses,  \* the In-Flight Tracker
    startRequests,     \* start requests sent, per asset
    pendingStart,      \* start requests whose response is not yet handled
    lastStart,         \* the start request handled last: its asset and how it ended
    startRecommender,  \* sell_recommender_id of the latest start request, per asset
    stopRequests,      \* stop requests sent, per asset
    triggers,          \* calls of startListeners / processTokenPerformance so far
    lastCall,          \* which of the two was called last
    unhandled,         \* where an error escaped every handler
    pc,                \* where the handler of each message stands
    msg,               \* the content of each delivered message
    acked,             \* whether the message has been acknowledged
    acks,              \* how many times the message has been acknowledged
    trade,             \* the buy the handler loaded (local `trade`)
    result,            \* how the handler of each message ended
    sync,              \* the updateTradeInBe call of each message's sell
    settings,          \* the settings the runtime has a value for
    ctor,              \* how far the constructor got
    amqp,              \* how far initializeRabbitMQ / consumeMessages got
    wallet,            \* how far initializeWalletProvider got
    econIn,            \* SpecEcon: the inputs of one sell-economics computation
    econOut            \* SpecEcon: the sellDetailsData computed from them

ledger == <<balance, sells, transactions>>
remote == <<startRequests, pendingStart, lastStart, startRecommender, stopRequests>>
scan == <<triggers, lastCall>>
queue == <<pc, msg, acked, acks, trade, result>>
report == <<sync>>
startup == <<settings, ctor, amqp, wallet>>
econ == <<econIn, econOut>>
vars == <<ledger, runningProcesses, remote, scan, unhandled, queue, report, startup, econ>>

NoStart == [token |-> BadAddress, outcome |-> "none"]

NoRecommender == "<no request>"

NoEcon == <<>>

(***************************************************************************)
(* Startup: the constructor, initializeRabbitMQ, consumeMessages.          *)
(***************************************************************************)
\* the settings the constructor throws for when absent, lines 41-61 ...
CheckedBeforeRabbitMQ == {"RPC_URL", "BACKEND_URL", "BACKEND_TOKEN", "AMQP_URL"}

\* ... and lines 64-70, after initializeRabbitMQ(amqpUrl) of line 62
CheckedAfterRabbitMQ == {"SONAR_BE", "SONAR_BE_TOKEN"}

RequiredSettings == CheckedBeforeRabbitMQ \cup CheckedAfterRabbitMQ

\* initializeWalletProvider (lines 197-203): `st` is how far it got and
\* `runtime` whether this.runtime was stored when it read it (line 198)
WalletNotStarted == [st |-> "not_started", runtime |-> FALSE]

\* the call of line 45: this.runtime is assigned only at line 71
WalletStarted == [st |-> "pending", runtime |-> FALSE]

\* the service after a getWalletKey that returned a public key
WalletSet == [st |-> "set", runtime |-> FALSE]

(***************************************************************************)
(* Backend Synchronizer: updateTradeInBe.                                  *)
(***************************************************************************)
\* retries = 3
DefaultRetries == 3
\* delayMs = 2000
DefaultDelayMs == 2000

\* what the fetch of one attempt can end in
ReportOutcomes == {"ok", "http_error", "network_error"}

\* no updateTradeInBe call
NoReport ==
    [st |-> "idle", retries |-> 0, delayMs |-> 0, attempt |-> 0, failed |-> 0,
     waits |-> 0, waitedMs |-> 0, status |-> "none"]

\* updateTradeInBe(..., retries, delayMs) up to the fetch of its first
\* attempt (lines 483-485); a loop that never runs returns at once
CallUpdateTradeInBe(retries, delayMs) ==
    [st |-> IF 1 <= retries THEN "request" ELSE "returned",
     retries |-> retries, delayMs |-> delayMs,
     attempt |-> IF 1 <= retries THEN 1 ELSE 0,
     failed |-> 0, waits |-> 0, waitedMs |-> 0, status |-> "none"]

\* the catch of lines 505-516 as one that throws the error again
RethrowInUpdateTradeInBe(error) == {"updateTradeInBe"}

\* the catch of lines 505-516 logs the error: nothing escapes
CatchInUpdateTradeInBe(error) == {}

\* `attempt < retries` of line 510 as `attempt <= retries`
RetryAlsoAfterLast(attempt, retries) == attempt <= retries

\* line 510: another attempt follows
RetryFollows(attempt, retries) == attempt < retries

\* the loop without its return of line 504
ReportReturnsNever(outcome) == FALSE

\* a return of line 504 taken only for a 2xx response
ReportReturnsOnlyOk(outcome) == outcome = "ok"

\* a fetch that resolves ends the loop whatever the status (line 504)
ReportReturns(outcome) == outcome # "network_error"

Init ==
    /\ balance = InitialBalance
    /\ sells = {}
    /\ transactions = 0
    /\ runningProcesses = {}
    /\ startRequests = [a \in Assets |-> 0]
    /\ pendingStart = [a \in Assets |-> 0]
    /\ lastStart = NoStart
    /\ startRecommender = [a \in Assets |-> NoRecommender]
    /\ stopRequests = [a \in Assets |-> 0]
    /\ triggers = 0
    /\ lastCall = "none"
    /\ unhandled = {}
    /\ pc = [m \in Msgs |-> "queued"]
    /\ msg = [m \in Msgs |-> NoMessage]
    /\ acked = [m \in Msgs |-> FALSE]
    /\ acks = [m \in Msgs |-> 0]
    /\ trade = [m \in Msgs |-> NoTrade]
    /\ result = [m \in Msgs |-> "none"]
    /\ sync = [m \in Msgs |-> NoReport]
    /\ settings = RequiredSettings
    /\ ctor = "constructed"
    /\ amqp = "consuming"
    /\ wallet = WalletSet
    /\ econIn = NoEcon
    /\ econOut = NoEcon

(***************************************************************************)
(* Queue path: consumeMessages, processMessage, executeSellDecision,       *)
(* updateSellDetails.                                                      *)
(***************************************************************************)
\* processMessage's catch (lines 133-135) logs the error: nothing escapes
CatchInProcessMessage(error) == {}

\* processMessage without its delete of line 132
AfterExecuteSellKeeps(running, token) == running

\* the rest of processMessage once executeSellDecision has returned
\* (line 132): the asset leaves the tracker
AfterExecuteSell(running, token) == running \ {token}

\* the catch of lines 184-189 as one that throws the error again
RethrowInExecuteSell(error) == {"executeSellDecision"}

\* executeSellDecision's catch (lines 184-189) logs the error: nothing escapes
CatchInExecuteSell(error) == {}

\* executeSellDecision's catch (lines 184-189) logs the error and returns; the
\* handler of message m ends as `why`
AbandonSell(m, why) ==
    /\ runningProcesses' = AfterExecuteSell(runningProcesses, msg[m].tokenAddress)
    /\ pc' = [pc EXCEPT ![m] = "done"]
    /\ result' = [result EXCEPT ![m] = why]
    /\ unhandled' = unhandled \cup CatchInExecuteSell(why)
    /\ UNCHANGED <<econ, startup, report, ledger, remote, scan, msg, acked, acks, trade>>

\* the consumer callback without its ack of line 101
NotAcked(n) == n

\* this.amqpChannel.ack(msg), line 101
Acked(n) == n + 1

\* The consumer callback (lines 97-103) for the next message of the queue:
\* processMessage runs up to its first await and the message is acknowledged.
Deliver(m, raw) ==
    /\ amqp = "consuming"
    /\ pc[m] = "queued"
    /\ \A k \in Msgs : k < m => pc[k] # "queued"
    /\ msg' = [msg EXCEPT ![m] = raw]
    /\ IF raw.json
       THEN \* getTokenPerformance is called and awaited
            /\ pc' = [pc EXCEPT ![m] = "position"]
            /\ UNCHANGED <<result, unhandled>>
       ELSE \* JSON.parse throws
            /\ pc' = [pc EXCEPT ![m] = "done"]
            /\ result' = [result EXCEPT ![m] = "parse_error"]
            /\ unhandled' = unhandled \cup CatchInProcessMessage("parse_error")
    /\ acked' = [acked EXCEPT ![m] = TRUE]
    /\ acks' = [acks EXCEPT ![m] = Acked(@)]
    /\ UNCHANGED <<econ, startup, report, ledger, runningProcesses, remote, scan, trade>>

\* getTokenPerformance returns or throws (line 123).  On return
\* executeSellDecision reads the position's tokenAddress (line 145, outside
\* the try), builds the TokenProvider from this.runtime (lines 158-163) and
\* updateSellDetails runs up to the market data fetch (line 385).
ResumePosition(m, ok) ==
    /\ pc[m] = "position"
    /\ IF ok /\ HasPosition(msg[m].tokenAddress)
       THEN IF ctor = "constructed"
            THEN /\ pc' = [pc EXCEPT ![m] = "market"]
                 /\ UNCHANGED <<econ, startup, report, ledger, runningProcesses, remote,
                                scan, unhandled, msg, acked, acks, trade, result>>
            ELSE \* this.runtime is undefined: TypeError inside the try
                 AbandonSell(m, "no_runtime")
       ELSE \* the read throws, or tokenPerformance is null and line 145
            \* throws: caught by processMessage, line 132 is skipped
            /\ pc' = [pc EXCEPT ![m] = "done"]
            /\ result' = [result EXCEPT ![m] = "position_error"]
            /\ unhandled' = unhandled \cup CatchInProcessMessage("position_error")
            /\ UNCHANGED <<econ, startup, report, ledger, runningProcesses, remote, scan,
                           msg, acked, acks, trade>>

\* getProcessedTokenData returns or throws (line 385); fetchPrices is called.
ResumeMarket(m, ok) ==
    /\ pc[m] = "market"
    /\ IF ok
       THEN /\ pc' = [pc EXCEPT ![m] = "prices"]
            /\ UNCHANGED <<econ, startup, report, ledger, runningProcesses, remote, scan,
                           unhandled, msg, acked, acks, trade, result>>
       ELSE AbandonSell(m, "market_error")

\* this.walletProvider.fetchPrices returns or throws (line 386; it throws at
\* once when walletProvider is not set); the open buy is looked up (lines
\* 391-396); isRapidDump is called (line 408).
ResumePrices(m, ok) ==
    /\ pc[m] = "prices"
    /\ LET found == GetLatestOpenTrade(sells, msg[m].tokenAddress,
                                       RecommenderId(msg[m].sell_recommender_id))
       IN  IF ~ok \/ wallet.st # "set" THEN AbandonSell(m, "price_error")
           ELSE IF found = NoTrade
           THEN \* trade.buy_timeStamp throws
                AbandonSell(m, "no_open_buy")
           ELSE /\ trade' = [trade EXCEPT ![m] = found]
                /\ pc' = [pc EXCEPT ![m] = "rapid_dump"]
                /\ UNCHANGED <<econ, startup, report, ledger, runningProcesses, remote,
                               scan, unhandled, msg, acked, acks, result>>

\* executeSellDecision without its lines 178-181
ReleaseNever(running, token, bal) == running

\* executeSellDecision, lines 178-181: the asset leaves the tracker when its
\* balance is 0
ReleaseIfZero(running, token, bal) ==
    IF IsZero(bal) THEN running \ {token} ELSE running

\* line 435 with the amount added
TokenBalanceAdded(oldBalance, sell_amount) ==
    JSub(oldBalance, JSub(Num(0), sell_amount))

\* tokenBalance, lines 434-435
TokenBalance(oldBalance, sell_amount) == JSub(oldBalance, sell_amount)

\* what updateTradePerformanceOnSell is given for message m (lines 425-431)
SellRecord(m) ==
    [by |-> m, buy |-> trade[m], token |-> msg[m].tokenAddress,
     recommender |-> RecommenderId(msg[m].sell_recommender_id),
     data |-> SellDetailsData(msg[m].amount, Market[msg[m].tokenAddress],
                              SolPrice, BuyOf(trade[m]))]

\* isRapidDump returns or throws (line 408).  On return the sell is written
\* (lines 425-448), updateTradeInBe is called and not awaited (lines
\* 449-455), executeSellDecision releases the asset if its balance is 0 and
\* sends the stop request (lines 178-183).
ResumeRapidDump(m, ok) ==
    /\ pc[m] = "rapid_dump"
    /\ IF ~ok THEN AbandonSell(m, "market_error")
       ELSE LET token == msg[m].tokenAddress
                tokenBalance == TokenBalance(balance[token], msg[m].amount)
            IN  /\ sells' = sells \cup {SellRecord(m)}
                /\ balance' = [balance EXCEPT ![token] = tokenBalance]
                /\ transactions' = transactions + 1
                /\ sync' = [sync EXCEPT ![m] =
                               CallUpdateTradeInBe(DefaultRetries, DefaultDelayMs)]
                /\ runningProcesses' = ReleaseIfZero(runningProcesses, token, tokenBalance)
                /\ stopRequests' = [stopRequests EXCEPT ![token] = @ + 1]
                /\ pc' = [pc EXCEPT ![m] = "stop"]
                /\ UNCHANGED <<econ, startup, startRequests, pendingStart, lastStart,
                               startRecommender, scan, unhandled, msg, acked, acks, trade,
                               result>>

\* the catch of lines 364-369 as one that throws the error again
RethrowInStopProcess(error) == {"stopProcessInTheSonarBackend"}

\* stopProcessInTheSonarBackend's catch (lines 364-369) logs the error:
\* nothing escapes
CatchInStopProcess(error) == {}

\* The stop request returns, with whatever status, or throws (its error is
\* caught, lines 364-369);
\* executeSellDecision returns and processMessage ends (line 132).
ResumeStop(m, ok) ==
    /\ pc[m] = "stop"
    /\ runningProcesses' = AfterExecuteSell(runningProcesses, msg[m].tokenAddress)
    /\ pc' = [pc EXCEPT ![m] = "done"]
    /\ result' = [result EXCEPT ![m] = IF ok THEN "sold" ELSE "sold_stop_failed"]
    /\ unhandled' = unhandled \cup (IF ok THEN {} ELSE CatchInStopProcess("stop_error"))
    /\ UNCHANGED <<econ, startup, report, ledger, remote, scan, msg, acked, acks, trade>>

(***************************************************************************)
(* The report of a sell: updateTradeInBe, called and not awaited.          *)
(***************************************************************************)
\* The fetch of the current attempt resolves or throws (lines 485-516).
ReportResponse(m, outcome) ==
    /\ sync[m].st = "request"
    /\ IF ReportReturns(outcome)
       THEN /\ sync' = [sync EXCEPT ![m].st = "returned", ![m].status = outcome]
            /\ UNCHANGED unhandled
       ELSE /\ unhandled' = unhandled \cup CatchInUpdateTradeInBe(outcome)
            /\ IF RetryFollows(sync[m].attempt, sync[m].retries)
               THEN \* delay(delayMs) is called and awaited
                    sync' = [sync EXCEPT ![m].st = "delay",
                                         ![m].status = outcome,
                                         ![m].failed = @ + 1,
                                         ![m].waits = @ + 1,
                                         ![m].waitedMs = @ + sync[m].delayMs]
               ELSE \* "All attempts failed."; the loop ends and the call returns
                    sync' = [sync EXCEPT ![m].st = "returned", ![m].status = outcome,
                                         ![m].failed = @ + 1]
    /\ UNCHANGED <<econ, startup, ledger, runningProcesses, remote, scan, queue>>

\* The timer of delay fires (line 512): the next attempt sends its request,
\* if the loop has one left.
ReportDelayDone(m) ==
    /\ sync[m].st = "delay"
    /\ sync' = IF sync[m].attempt + 1 <= sync[m].retries
               THEN [sync EXCEPT ![m].st = "request", ![m].attempt = @ + 1]
               ELSE [sync EXCEPT ![m].st = "returned"]
    /\ UNCHANGED <<econ, startup, ledger, runningProcesses, remote, scan, unhandled, queue>>

(***************************************************************************)
(* Scan path: startListeners, processTokenPerformances,                    *)
(* processTokenPerformance.                                                *)
(***************************************************************************)
\* processTokenPerformances without its filter of lines 225-227
NotRunningIgnored(tokenPerformances, running) == tokenPerformances

\* the assets processTokenPerformances keeps (lines 225-227)
NotRunning(tokenPerformances, running) == tokenPerformances \ running

\* the recommender of the last recommendation returned
OldestRecommender(tokenRecommendations) ==
    tokenRecommendations[Len(tokenRecommendations)].recommenderId

\* tokenRecommendations[0].recommenderId, lines 244-247
FirstRecommender(tokenRecommendations) == tokenRecommendations[1].recommenderId

\* startListeners: every position with balance that is not in the tracker
\* gets a start request, unless it has no recommendation (line 247 throws in
\* its own async callback).
StartListeners ==
    /\ ctor = "constructed"
    /\ triggers < MaxTriggers
    /\ triggers' = triggers + 1
    /\ lastCall' = "startListeners"
    /\ LET kept == NotRunning(PositionsWithBalance(balance), runningProcesses)
           sent == {a \in kept : Len(Recommendations[a]) > 0}
       IN  /\ startRequests' = [a \in Assets |->
                                  startRequests[a] + IF a \in sent THEN 1 ELSE 0]
           /\ pendingStart' = [a \in Assets |->
                                  pendingStart[a] + IF a \in sent THEN 1 ELSE 0]
           /\ startRecommender' = [a \in Assets |->
                                     IF a \in sent
                                     THEN FirstRecommender(Recommendations[a])
                                     ELSE startRecommender[a]]
           /\ unhandled' = unhandled \cup
                              (IF kept = sent THEN {} ELSE {"scan_callback"})
    /\ UNCHANGED <<econ, startup, report, ledger, runningProcesses, lastStart,
                   stopRequests, queue>>

\* processTokenPerformance(tokenAddress, recommenderId), lines 268-293
ProcessTokenPerformance(token, recommenderId) ==
    /\ ctor = "constructed"
    /\ triggers < MaxTriggers
    /\ triggers' = triggers + 1
    /\ lastCall' = "processTokenPerformance"
    /\ IF token \in NotRunning({token}, runningProcesses) /\ HasPosition(token)
       THEN /\ startRequests' = [startRequests EXCEPT ![token] = @ + 1]
            /\ pendingStart' = [pendingStart EXCEPT ![token] = @ + 1]
            /\ startRecommender' =
                  [startRecommender EXCEPT ![token] = RecommenderId(recommenderId)]
       ELSE \* already being processed, or tokenPerformance is null (caught)
            UNCHANGED <<startRequests, pendingStart, startRecommender>>
    /\ UNCHANGED <<econ, startup, report, ledger, runningProcesses, lastStart,
                   stopRequests, unhandled, queue>>

\* the catch of lines 345-351 as one that throws the error again
RethrowInStartProcess(error) == {"startProcessInTheSonarBackend"}

\* startProcessInTheSonarBackend's catch (lines 345-351) logs the error and
\* returns null: nothing escapes
CatchInStartProcess(error) == {}

\* the outcomes in which fetch or response.json() throws
StartThrows == {"ok_not_json", "network_error"}

\* A start request of the asset ends (lines 333-351) and its caller goes on
\* (lines 256-259, 294-297).
StartResponse(a, outcome) ==
    /\ pendingStart[a] > 0
    /\ pendingStart' = [pendingStart EXCEPT ![a] = @ - 1]
    /\ lastStart' = [token |-> a, outcome |-> outcome]
    /\ runningProcesses' =
          IF Accepted(StartProcessResult(outcome))
          THEN runningProcesses \cup {a} ELSE runningProcesses
    /\ unhandled' = unhandled \cup
                       (IF outcome \in StartThrows THEN CatchInStartProcess(outcome)
                        ELSE {})
    /\ UNCHANGED <<econ, startup, report, ledger, startRequests, startRecommender,
                   stopRequests, scan, queue>>

\* the recommenderId processTokenPerformance is called with
DirectRecommenders == {"rec1"}

\* the steps of the service for the queue messages M
Step(M) ==
    \/ \E m \in M, raw \in RawMessages : Deliver(m, raw)
    \/ \E m \in M, ok \in BOOLEAN : ResumePosition(m, ok)
    \/ \E m \in M, ok \in BOOLEAN : ResumeMarket(m, ok)
    \/ \E m \in M, ok \in BOOLEAN : ResumePrices(m, ok)
    \/ \E m \in M, ok \in BOOLEAN : ResumeRapidDump(m, ok)
    \/ \E m \in M, ok \in BOOLEAN : ResumeStop(m, ok)
    \/ StartListeners
    \/ \E token \in Tokens, recommenderId \in DirectRecommenders :
          ProcessTokenPerformance(token, recommenderId)
    \/ \E a \in Assets, outcome \in StartOutcomes : StartResponse(a, outcome)

\* The service after construction.  The requests of updateTradeInBe stay
\* unanswered here: no step of the service reads `sync`, and SpecReport
\* adds their responses.
Next == Step(Msgs)

Spec == Init /\ [][Next]_vars

(***************************************************************************)
(* SpecReport: the service together with the report task of each sell.     *)
(***************************************************************************)
NextReport ==
    \/ Step(1..FewMsgs)
    \/ \E m \in 1..FewMsgs, outcome \in ReportOutcomes : ReportResponse(m, outcome)
    \/ \E m \in 1..FewMsgs : ReportDelayDone(m)

SpecReport == Init /\ [][NextReport]_vars

(***************************************************************************)
(* SpecFault: the service with a Ledger whose balance write can fail, and  *)
(* a process that can die, once the sell record is written.                *)
(***************************************************************************)
\* the record of line 425 taken back when a later step fails
RolledBack(sold, record) == sold

\* updateTradePerformanceOnSell has returned (line 431) when line 434 or 436
\* throws or the process dies; neither updateSellDetails nor the catch of
\* lines 184-189 undoes it
AfterFailedWrite(sold, record) == sold \cup {record}

FailureKinds == {"throws", "crash"}

\* isRapidDump has returned and the sell record is written (line 425); then
\* getTokenBalance or updateTokenBalance throws (lines 434-436), which the
\* catch of lines 184-189 logs before processMessage ends (line 132), or the
\* process dies, and with it the tracker, its handlers and the responses it
\* was waiting for.
SellWriteFails(m, how) ==
    /\ pc[m] = "rapid_dump"
    /\ sells' = AfterFailedWrite(sells, SellRecord(m))
    /\ UNCHANGED <<balance, transactions>>
    /\ IF how = "throws"
       THEN /\ runningProcesses' = AfterExecuteSell(runningProcesses, msg[m].tokenAddress)
            /\ pc' = [pc EXCEPT ![m] = "done"]
            /\ result' = [result EXCEPT ![m] = "balance_error"]
            /\ UNCHANGED <<startup, remote>>
       ELSE /\ runningProcesses' = {}
            /\ pc' = [k \in Msgs |-> IF pc[k] \in {"queued", "done"} THEN pc[k]
                                     ELSE "crashed"]
            /\ result' = [result EXCEPT ![m] = "crashed"]
            /\ ctor' = "crashed"
            /\ amqp' = "none"
            /\ pendingStart' = [a \in Assets |-> 0]
            /\ UNCHANGED <<settings, wallet, startRequests, lastStart, startRecommender,
                           stopRequests>>
    /\ UNCHANGED <<econ, report, scan, unhandled, msg, acked, acks, trade>>

NextFault ==
    \/ Step(1..FewMsgs)
    \/ \E m \in 1..FewMsgs, how \in FailureKinds : SellWriteFails(m, how)

SpecFault == Init /\ [][NextFault]_vars

(***************************************************************************)
(* SpecSync: updateTradeInBe on its own, called with `retries` from 1 to   *)
(* MaxRetries and several delays.                                          *)
(***************************************************************************)
SyncDelays == {0, 500, DefaultDelayMs}

InitSync ==
    /\ \E retries \in 1..MaxRetries, delayMs \in SyncDelays :
          sync = [m \in Msgs |-> IF m = 1 THEN CallUpdateTradeInBe(retries, delayMs)
                                 ELSE NoReport]
    /\ balance = InitialBalance
    /\ sells = {}
    /\ transactions = 0
    /\ runningProcesses = {}
    /\ startRequests = [a \in Assets |-> 0]
    /\ pendingStart = [a \in Assets |-> 0]
    /\ lastStart = NoStart
    /\ startRecommender = [a \in Assets |-> NoRecommender]
    /\ stopRequests = [a \in Assets |-> 0]
    /\ triggers = 0
    /\ lastCall = "none"
    /\ unhandled = {}
    /\ pc = [m \in Msgs |-> "queued"]
    /\ msg = [m \in Msgs |-> NoMessage]
    /\ acked = [m \in Msgs |-> FALSE]
    /\ acks = [m \in Msgs |-> 0]
    /\ trade = [m \in Msgs |-> NoTrade]
    /\ result = [m \in Msgs |-> "none"]
    /\ settings = RequiredSettings
    /\ ctor = "constructed"
    /\ amqp = "consuming"
    /\ wallet = WalletSet
    /\ econIn = NoEcon
    /\ econOut = NoEcon

NextSync ==
    \/ \E m \in Msgs, outcome \in ReportOutcomes : ReportResponse(m, outcome)
    \/ \E m \in Msgs : ReportDelayDone(m)

SpecSync == InitSync /\ [][NextSync]_vars

\* every awaited fetch settles and every timer of delay fires
SpecSyncLive == InitSync /\ [][NextSync]_vars /\ WF_vars(NextSync)

(***************************************************************************)
(* SpecStart: the service from `new SimulationSellingService(...)` on, for *)
(* every set of settings the runtime may have.                             *)
(***************************************************************************)
InitStart ==
    /\ settings \in SUBSET RequiredSettings
    /\ ctor = "new"
    /\ amqp = "none"
    /\ wallet = WalletNotStarted
    /\ balance = InitialBalance
    /\ sells = {}
    /\ transactions = 0
    /\ runningProcesses = {}
    /\ startRequests = [a \in Assets |-> 0]
    /\ pendingStart = [a \in Assets |-> 0]
    /\ lastStart = NoStart
    /\ startRecommender = [a \in Assets |-> NoRecommender]
    /\ stopRequests = [a \in Assets |-> 0]
    /\ triggers = 0
    /\ lastCall = "none"
    /\ unhandled = {}
    /\ pc = [m \in Msgs |-> "queued"]
    /\ msg = [m \in Msgs |-> NoMessage]
    /\ acked = [m \in Msgs |-> FALSE]
    /\ acks = [m \in Msgs |-> 0]
    /\ trade = [m \in Msgs |-> NoTrade]
    /\ result = [m \in Msgs |-> "none"]
    /\ sync = [m \in Msgs |-> NoReport]
    /\ econIn = NoEcon
    /\ econOut = NoEcon

\* The constructor (lines 38-72): it throws at the first absent setting;
\* initializeWalletProvider (line 45) runs up to getWalletKey once RPC_URL
\* is there, initializeRabbitMQ (line 62) up to amqp.connect once the
\* settings of lines 41-61 are there.
Construct ==
    /\ ctor = "new"
    /\ wallet' = IF "RPC_URL" \in settings THEN WalletStarted ELSE wallet
    /\ IF CheckedBeforeRabbitMQ \subseteq settings
       THEN /\ amqp' = "connecting"
            /\ ctor' = IF CheckedAfterRabbitMQ \subseteq settings
                       THEN "constructed" ELSE "threw"
       ELSE /\ amqp' = amqp
            /\ ctor' = "threw"
    /\ UNCHANGED <<econ, settings, report, ledger, runningProcesses, remote, scan,
                   unhandled, queue>>

\* amqp.connect returns or throws (line 79, caught at line 84);
\* createChannel is called.
RabbitConnected(ok) ==
    /\ amqp = "connecting"
    /\ amqp' = IF ok THEN "channel" ELSE "failed"
    /\ UNCHANGED <<econ, settings, ctor, wallet, report, ledger, runningProcesses, remote, scan,
                   unhandled, queue>>

\* createChannel returns or throws (line 80); consumeMessages is called, not
\* awaited, and runs up to assertQueue (line 94).
ChannelCreated(ok) ==
    /\ amqp = "channel"
    /\ amqp' = IF ok THEN "asserting" ELSE "failed"
    /\ UNCHANGED <<econ, settings, ctor, wallet, report, ledger, runningProcesses, remote, scan,
                   unhandled, queue>>

\* assertQueue returns and the consumer is registered (lines 95-105), or it
\* throws: nothing awaits consumeMessages, so its rejection is unhandled.
QueueAsserted(ok) ==
    /\ amqp = "asserting"
    /\ amqp' = IF ok THEN "consuming" ELSE "failed"
    /\ unhandled' = unhandled \cup (IF ok THEN {} ELSE {"consumeMessages"})
    /\ UNCHANGED <<econ, settings, ctor, wallet, report, ledger, runningProcesses, remote, scan,
                   queue>>

\* getWalletKey returns a public key and walletProvider is set (line 202),
\* or it throws or returns none (line 200): nothing awaits
\* initializeWalletProvider, so its rejection is unhandled.
WalletKeyResolved(ok) ==
    /\ wallet.st = "pending"
    /\ wallet' = [wallet EXCEPT !.st = IF ok THEN "set" ELSE "failed"]
    /\ unhandled' = unhandled \cup (IF ok THEN {} ELSE {"initializeWalletProvider"})
    /\ UNCHANGED <<econ, settings, ctor, amqp, report, ledger, runningProcesses, remote,
                   scan, queue>>

NextStart ==
    \/ Construct
    \/ \E ok \in BOOLEAN : WalletKeyResolved(ok)
    \/ \E ok \in BOOLEAN : RabbitConnected(ok)
    \/ \E ok \in BOOLEAN : ChannelCreated(ok)
    \/ \E ok \in BOOLEAN : QueueAsserted(ok)
    \/ Step(1..FewMsgs)

SpecStart == InitStart /\ [][NextStart]_vars

(***************************************************************************)
(* SpecEcon: the sell economics of updateSellDetails as a function of its  *)
(* inputs, over a grid of amounts, market data and matched buys.           *)
(***************************************************************************)
EconChanges ==
    {<<>>} \cup {<<x>> : x \in {Num(-60), Rat(-501, 10), Num(-50), Rat(-499, 10),
                                 Num(0), Num(35), NaN}}

EconData ==
    [price : {Rat(6, 10), Num(2), Rat(1, 3)},
     trade_24h_change_percent : EconChanges,
     pairs : {<<>>} \cup
             {<<[marketCap |-> mc, liquidity |-> liq]>> :
                 mc \in {Num(1200), Num(700)}, liq \in {Num(180), Rat(5, 2)}}]

EconBuys ==
    Buys \cup
    {[id |-> "b4", token |-> "ABC", recommender |-> "rec1", buy_timeStamp |-> 3,
      buy_value_usd |-> Rat(15, 2), buy_market_cap |-> Num(2000),
      buy_liquidity |-> Num(180)]}

EconInputs ==
    [amount : {Num(100), Num(1), Num(7)}, data : EconData, buy : EconBuys]

InitEcon ==
    /\ econIn \in {<<i>> : i \in EconInputs}
    /\ econOut = NoEcon
    /\ balance = InitialBalance
    /\ sells = {}
    /\ transactions = 0
    /\ runningProcesses = {}
    /\ startRequests = [a \in Assets |-> 0]
    /\ pendingStart = [a \in Assets |-> 0]
    /\ lastStart = NoStart
    /\ startRecommender = [a \in Assets |-> NoRecommender]
    /\ stopRequests = [a \in Assets |-> 0]
    /\ triggers = 0
    /\ lastCall = "none"
    /\ unhandled = {}
    /\ pc = [m \in Msgs |-> "queued"]
    /\ msg = [m \in Msgs |-> NoMessage]
    /\ acked = [m \in Msgs |-> FALSE]
    /\ acks = [m \in Msgs |-> 0]
    /\ trade = [m \in Msgs |-> NoTrade]
    /\ result = [m \in Msgs |-> "none"]
    /\ sync = [m \in Msgs |-> NoReport]
    /\ settings = RequiredSettings
    /\ ctor = "constructed"
    /\ amqp = "consuming"
    /\ wallet = WalletSet

\* lines 388-424 on the chosen inputs
ComputeSellDetails ==
    /\ econOut = NoEcon
    /\ econOut' = <<SellDetailsData(econIn[1].amount, econIn[1].data, SolPrice,
                                     econIn[1].buy)>>
    /\ UNCHANGED <<econIn, startup, report, ledger, runningProcesses, remote, scan,
                   unhandled, queue>>

NextEcon == ComputeSellDetails

SpecEcon == InitEcon /\ [][NextEcon]_vars

(***************************************************************************)
(* Properties.                                                             *)
(***************************************************************************)
\* the start request of asset a has just been handled
StartHandled(a) == pendingStart'[a] < pendingStart[a]

\* C1: for every asset at most one liquidation attempt is active at a time:
\* a start request that is pending or was accepted (the asset is in the
\* tracker) excludes every other start request for the asset.
C1_AtMostOneActiveAttempt ==
    \A a \in Assets :
        pendingStart[a] + (IF a \in runningProcesses THEN 1 ELSE 0) <= 1

\* C2: a message is acknowledged only after its processing has ended.
C2_AckOnlyAfterProcessing ==
    \A m \in Msgs : acked[m] => pc[m] = "done"

\* C3: when a queue-driven sell has been fully processed, the asset is absent
\* from the tracker if the balance is 0 and, if it was in flight and the
\* balance is greater than 0, still present.
C3_TrackerFollowsBalance ==
    [][\A m \in Msgs :
          (pc[m] = "stop" /\ pc'[m] = "done") =>
              LET a == msg[m].tokenAddress
              IN  /\ IsZero(balance'[a]) => a \notin runningProcesses'
                  /\ (JLt(Num(0), balance'[a]) /\ a \in runningProcesses)
                        => a \in runningProcesses']_vars

FailedStart == {"http_error", "network_error"}

C5_HttpSuccessIsTracked ==
    [][\A a \in Assets :
          (StartHandled(a) /\ lastStart'.outcome \in {"ok_object", "ok_falsy_body"})
             => a \in runningProcesses']_vars

\* a required field of the message is absent or of the wrong type
Malformed(raw) == ~raw.json \/ raw.tokenAddress = BadAddress \/ raw.amount.nan

\* C6: no step of the handler of a malformed message writes the Ledger or
\* lets an error escape, and the message is acknowledged.
C6_MalformedIsDiscarded ==
    [][\A m \in Msgs :
          (pc'[m] # pc[m] /\ Malformed(msg'[m])) =>
              /\ UNCHANGED ledger
              /\ unhandled' = unhandled
              /\ acked'[m]]_vars

\* C7: when the lookup of the open buy finds none, the attempt ends there:
\* the Ledger (sell records, balances, transactions) is unchanged, no error
\* escapes, and the asset is not in the tracker afterwards.
C7_NoOpenBuyAbandonsAttempt ==
    [][\A m \in Msgs :
          (/\ pc[m] = "prices"
           /\ pc'[m] # "prices"
           /\ GetLatestOpenTrade(sells, msg[m].tokenAddress,
                                 RecommenderId(msg[m].sell_recommender_id)) = NoTrade)
             => /\ pc'[m] = "done"
                /\ UNCHANGED ledger
                /\ unhandled' = unhandled
                /\ msg[m].tokenAddress \notin runningProcesses']_vars

\* C7, its case: the only message delivered found no open buy for an asset
\* whose start request had been accepted; the asset has left the tracker.
C7_Witness ==
    /\ result[1] = "no_open_buy"
    /\ \A k \in Msgs : k # 1 => pc[k] = "queued"
    /\ lastStart = [token |-> msg[1].tokenAddress, outcome |-> "ok_object"]
    /\ pendingStart[msg[1].tokenAddress] = 0
    /\ msg[1].tokenAddress \notin runningProcesses

\* C8: no two sell records are matched against the same buy record.
C8_EachBuyMatchedOnce ==
    \A s, t \in sells : s.buy = t.buy => s = t

\* C9: when a scan and a queue-triggered sell for the same asset run at the
\* same time, only one proceeds: while the start request a scan sent for an
\* asset is pending, no sell for that asset has written the Ledger and is
\* still in progress.
C9_ScanAndSellExclude ==
    \A a \in Assets, m \in Msgs :
        (/\ triggers = 1
         /\ lastCall = "startListeners"
         /\ pendingStart[a] > 0
         /\ msg[m].tokenAddress = a)
           => pc[m] # "stop"

\* x is the number n/d (d > 0)
RatIs(x, n, d) == ~x.nan /\ x.n * d = n * x.d

\* C10: sell_value_usd = amount * price, profit_usd = sell_value_usd -
\* buy_value_usd, profit_percent = profit_usd / buy_value_usd * 100,
\* market_cap_change = mc - buy_market_cap and liquidity_change = liq -
\* buy_liquidity, stated in integer arithmetic on numerators and denominators.
C10_SellEconomics ==
    econOut # <<>> =>
        LET a == econIn[1].amount
            p == econIn[1].data.price
            b == econIn[1].buy
            bv == b.buy_value_usd
            o == econOut[1]
            sv == o.sell_value_usd
            pu == o.profit_usd
            pp == o.profit_percent
        IN  /\ RatIs(sv, a.n * p.n, a.d * p.d)
            /\ RatIs(pu, sv.n * bv.d - bv.n * sv.d, sv.d * bv.d)
            /\ ~pp.nan /\ pp.n * (pu.d * bv.n) = (pu.n * bv.d * 100) * pp.d
            /\ Len(econIn[1].data.pairs) > 0 =>
                  LET mc == econIn[1].data.pairs[1].marketCap
                      liq == econIn[1].data.pairs[1].liquidity
                      bm == b.buy_market_cap
                      bl == b.buy_liquidity
                  IN  /\ RatIs(o.market_cap_change,
                               mc.n * bm.d - bm.n * mc.d, mc.d * bm.d)
                      /\ RatIs(o.liquidity_change,
                               liq.n * bl.d - bl.n * liq.d, liq.d * bl.d)

\* C10, its case: amount 100 at price 0.6, market 1200/180, against the buy
\* 50/1000/200 gives 60, 10, 20, 200 and -20.
C10_Witness ==
    /\ econOut # <<>>
    /\ econIn[1].amount = [nan |-> FALSE, n |-> 100, d |-> 1]
    /\ econIn[1].data.price = [nan |-> FALSE, n |-> 3, d |-> 5]
    /\ econIn[1].data.pairs =
          <<[marketCap |-> [nan |-> FALSE, n |-> 1200, d |-> 1],
             liquidity |-> [nan |-> FALSE, n |-> 180, d |-> 1]]>>
    /\ econIn[1].buy.id = "b2"
    /\ econOut[1].sell_value_usd = [nan |-> FALSE, n |-> 60, d |-> 1]
    /\ econOut[1].profit_usd = [nan |-> FALSE, n |-> 10, d |-> 1]
    /\ econOut[1].profit_percent = [nan |-> FALSE, n |-> 20, d |-> 1]
    /\ econOut[1].market_cap_change = [nan |-> FALSE, n |-> 200, d |-> 1]
    /\ econOut[1].liquidity_change = [nan |-> FALSE, n |-> -20, d |-> 1]

\* C11: the rapid-dump flag of a sell is true exactly when the 24h price
\* change is a number below -50; -50 itself, a missing change (read as 0)
\* and NaN give false.
C11_RapidDumpBelowMinus50 ==
    econOut # <<>> =>
        LET change == econIn[1].data.trade_24h_change_percent
        IN  econOut[1].rapidDump <=>
                (Len(change) = 1 /\ ~change[1].nan /\ change[1].n < (-50) * change[1].d)

\* C11, its case: a 24h change of exactly -50 is not a rapid dump.
C11_Witness ==
    /\ econOut # <<>>
    /\ econIn[1].data.trade_24h_change_percent = <<[nan |-> FALSE, n |-> -50, d |-> 1]>>
    /\ ~econOut[1].rapidDump

\* C12: an updateTradeInBe call whose every attempt failed has made exactly
\* `retries` attempts and `retries - 1` waits of delayMs each, none after the
\* last attempt, and has returned without an error escaping; at every moment
\* the waits are those between the attempts made so far.
C12_ExhaustedRetries ==
    \A m \in Msgs :
        LET r == sync[m]
        IN  /\ (r.st = "returned" /\ r.failed = r.attempt) =>
                  /\ r.attempt = r.retries
                  /\ r.waits = r.retries - 1
                  /\ r.waitedMs = (r.retries - 1) * r.delayMs
                  /\ unhandled = {}
            /\ r.st \in {"request", "returned"} => r.waits = r.attempt - 1
            /\ r.st = "delay" => (r.waits = r.attempt /\ r.attempt < r.retries)

\* C12, its case: the default call (3 attempts, 2000 ms) has returned after
\* three failed attempts and two waits.
C12_Witness ==
    /\ sync[1].st = "returned"
    /\ sync[1].retries = 3
    /\ sync[1].delayMs = 2000
    /\ sync[1].failed = 3
    /\ sync[1].attempt = 3
    /\ sync[1].waits = 2
    /\ sync[1].waitedMs = 4000

\* a step of the report task of some sell: an attempt ends or a delay is over
ReportStep == sync' # sync /\ pc' = pc

\* C13: the report of a sell is fire-and-forget.  The handler that called
\* updateTradeInBe is never held up by it (after the write it can always go
\* on to its end), and no step of the report, whether its attempt succeeds,
\* fails and is retried, or fails for the last time, changes the Ledger, the
\* tracker, the handler's state and result, or lets an error escape.
C13_ReportIsFireAndForget ==
    /\ [](\A m \in 1..FewMsgs : pc[m] = "stop" => ENABLED ResumeStop(m, TRUE))
    /\ [][ReportStep =>
             UNCHANGED <<ledger, runningProcesses, remote, scan, unhandled, queue>>]_vars

\* C13, its case: the sell of message 1 has ended as sold while the first
\* request of its report is still unanswered.
C13_Witness ==
    /\ result[1] = "sold"
    /\ pc[1] = "done"
    /\ sync[1].st = "request"
    /\ sync[1].attempt = 1

\* C14: when the stop request fails, the step that handles the failure
\* leaves the Ledger as it was, with the sell record of the attempt in it,
\* lets no error escape, and an asset whose balance is 0 is not in the
\* tracker afterwards.
C14_FailedStopKeepsSell ==
    [][\A m \in Msgs :
          (pc[m] = "stop" /\ pc'[m] = "done" /\ result'[m] = "sold_stop_failed") =>
              LET a == msg[m].tokenAddress
              IN  /\ UNCHANGED ledger
                  /\ \E s \in sells' : s.by = m /\ s.token = a
                  /\ unhandled' = unhandled
                  /\ IsZero(balance'[a]) => a \notin runningProcesses']_vars

\* C14, its case: the sell of the whole XYZ position was written, its start
\* had been accepted, and its stop request failed.
C14_Witness ==
    /\ result[1] = "sold_stop_failed"
    /\ msg[1].tokenAddress = "XYZ"
    /\ IsZero(balance["XYZ"])
    /\ \E s \in sells : s.by = 1
    /\ lastStart = [token |-> "XYZ", outcome |-> "ok_object"]
    /\ "XYZ" \notin runningProcesses

\* the errors of the remote backend and of the report, by where they arise
RemoteErrors ==
    {"startProcessInTheSonarBackend", "stopProcessInTheSonarBackend", "updateTradeInBe"}

\* C15: no error of a start request, a stop request or a report escapes its
\* handler, every handler that has ended has ended with a result, and the
\* consumer can take the next message of the queue in every state.
C15_RemoteErrorsAreContained ==
    /\ unhandled \cap RemoteErrors = {}
    /\ \A m \in Msgs :
          /\ pc[m] = "done" => result[m] # "none"
          /\ (pc[m] = "queued" /\ \A k \in Msgs : k < m => pc[k] # "queued")
                => ENABLED Deliver(m, NoMessage)

\* C15, its case: the start request of ABC failed in the network, the stop
\* request of its sell failed, every attempt of the report failed, and the
\* next message can be delivered.
C15_Witness ==
    /\ lastStart = [token |-> "ABC", outcome |-> "network_error"]
    /\ result[1] = "sold_stop_failed"
    /\ sync[1].st = "returned"
    /\ sync[1].failed = 3
    /\ pc[2] = "queued"
    /\ ENABLED Deliver(2, NoMessage)

\* C16: when a required setting is absent the service does not start: the
\* constructor does not complete, no connection to the queue is started, and
\* no message is consumed.
C16_NoStartWithoutSettings ==
    (settings # RequiredSettings /\ ctor # "new") =>
        /\ ctor = "threw"
        /\ amqp = "none"
        /\ \A m \in Msgs : pc[m] = "queued" /\ ~acked[m]

\* the recommender of the recommendation of asset a with the latest timestamp
MostRecentRecommender(a) ==
    LET all == {Recommendations[a][i] : i \in 1..Len(Recommendations[a])}
    IN  (CHOOSE r \in all : \A q \in all : q.timestamp <= r.timestamp).recommenderId

\* C17: a scan sends exactly one start request, with the recommender of the
\* most recent recommendation, for every asset that has a non-zero balance,
\* is not in the tracker and has a recommendation, and none for any other
\* asset; an asset without recommendation does not keep the others from
\* being dispatched.
C17_ScanDispatchesEachOnce ==
    [][(triggers' # triggers /\ lastCall' = "startListeners") =>
          \A a \in Assets :
              IF /\ ~IsZero(balance[a])
                 /\ a \notin runningProcesses
                 /\ Len(Recommendations[a]) > 0
              THEN /\ startRequests'[a] = startRequests[a] + 1
                   /\ startRecommender'[a] = MostRecentRecommender(a)
              ELSE startRequests'[a] = startRequests[a]]_vars

\* C17, its case: one scan met XYZ, which has no recommendation, and ABC,
\* and sent the start request of ABC with the recommender rec2.
C17_Witness ==
    /\ triggers = 1
    /\ lastCall = "startListeners"
    /\ "scan_callback" \in unhandled
    /\ startRequests = [a \in Assets |-> IF a = "ABC" THEN 1 ELSE 0]
    /\ startRecommender["ABC"] = "rec2"

\* C18: a call of startListeners or processTokenPerformance sends no start
\* request for an asset that is in the tracker, and changes neither the
\* tracker nor the Ledger.
C18_TriggerForTrackedIsNoOp ==
    [][triggers' # triggers =>
          /\ UNCHANGED <<runningProcesses, ledger>>
          /\ \A a \in runningProcesses :
                /\ startRequests'[a] = startRequests[a]
                /\ pendingStart'[a] = pendingStart[a]
                /\ startRecommender'[a] = startRecommender[a]]_vars

\* C18, its case: processTokenPerformance started ABC with rec1, the start
\* was accepted, and the scan that followed sent nothing for ABC.
C18_Witness ==
    /\ triggers = 2
    /\ lastCall = "startListeners"
    /\ "ABC" \in runningProcesses
    /\ startRequests["ABC"] = 1
    /\ startRecommender["ABC"] = "rec1"

\* C19: when the handler of a queue message that names an asset ends,
\* however it ends, the asset is not in the tracker.
C19_EntryEndsWithAttempt ==
    [][\A m \in Msgs :
          (pc[m] # "done" /\ pc'[m] = "done" /\ msg'[m].tokenAddress \in Assets)
             => msg'[m].tokenAddress \notin runningProcesses']_vars

\* the sum of the amounts of the sell records S as a fraction <<n, d>>, or
\* <<>> when an amount is NaN
RECURSIVE SoldAmount(_)
SoldAmount(S) ==
    IF S = {} THEN <<0, 1>>
    ELSE LET s == CHOOSE x \in S : TRUE
             rest == SoldAmount(S \ {s})
             amount == s.data.sell_amount
         IN  IF amount.nan \/ rest = <<>> THEN <<>>
             ELSE <<amount.n * rest[2] + rest[1] * amount.d, amount.d * rest[2]>>

\* C20: at every moment, and so for every interleaving of the handlers, the
\* balance of an asset is its initial balance minus the sum of the amounts
\* of the sell records written for it (NaN when one of the amounts is NaN).
C20_BalanceIsInitialMinusSold ==
    \A a \in Assets :
        LET sold == SoldAmount({s \in sells : s.token = a})
            init == InitialBalance[a]
        IN  IF sold = <<>> THEN balance[a].nan
            ELSE RatIs(balance[a], init.n * sold[2] - sold[1] * init.d,
                       init.d * sold[2])

\* C20, its case: two sells of 100 ABC are in progress at once, both have
\* written their record, and the balance went from 200 to 0.
C20_Witness ==
    /\ pc[1] = "stop" /\ pc[2] = "stop"
    /\ msg[1].tokenAddress = "ABC" /\ msg[2].tokenAddress = "ABC"
    /\ Cardinality({s \in sells : s.token = "ABC"}) = 2
    /\ IsZero(balance["ABC"])

\* the sell records whose balance write did not happen
Undecremented == {s \in sells : result[s.by] \in {"balance_error", "crashed"}}

\* C21: the steps of a sell are not one transaction.  When the balance
\* update fails, or the process dies, after the sell record was written, the
\* Ledger keeps the record of that sell while the balance is the initial one
\* minus the amounts of the other sells only, no transaction is added for
\* it, and no later step removes a sell record.
C21_RecordStaysBalanceDoesNot ==
    /\ [](\A m \in Msgs :
            result[m] \in {"balance_error", "crashed"} =>
                /\ \E s \in sells : s.by = m /\ s.token = msg[m].tokenAddress
                /\ LET a == msg[m].tokenAddress
                       sold == SoldAmount({s \in sells \ Undecremented : s.token = a})
                       init == InitialBalance[a]
                   IN  IF sold = <<>> THEN balance[a].nan
                       ELSE RatIs(balance[a], init.n * sold[2] - sold[1] * init.d,
                                  init.d * sold[2])
                /\ transactions = Cardinality(sells \ Undecremented))
    /\ [][sells \subseteq sells']_vars

\* C21, its case: the balance write of a sell of 100 XYZ threw after its
\* record was written, and the handler has ended: the record is there and
\* the balance is still 100.
C21_Witness ==
    /\ result[1] = "balance_error"
    /\ pc[1] = "done"
    /\ msg[1].tokenAddress = "XYZ"
    /\ RatIs(msg[1].amount, 100, 1)
    /\ RatIs(balance["XYZ"], 100, 1)
    /\ \E s \in sells : s.by = 1

\* message m's sell record is in the Ledger
PersistedBy(m) == \E s \in sells : s.by = m

\* how an attempt ends when it fails before line 425
FailedBeforeRecord ==
    {"parse_error", "position_error", "no_runtime", "market_error", "price_error",
     "no_open_buy"}

\* C22: within one sell attempt the effects come in a fixed order.  The step
\* that sends the stop request for an asset is the step of one attempt that
\* has, by then, written its sell record, decremented the balance by the
\* amount, added the transaction, started the report and, if the new balance
\* is zero, released the tracker entry.  The balance is never decremented
\* for an attempt without a record, a report exists only for an attempt with
\* a record and a decremented balance, the stop requests of an asset are as
\* many as such attempts, and an attempt that failed before the record has
\* no record, no report and no stop request.
C22_EffectsInOrder ==
    /\ [](\A m \in Msgs :
            /\ sync[m].st # "idle" => PersistedBy(m) /\ result[m] \notin {"balance_error", "crashed"}
            /\ pc[m] = "stop" \/ result[m] \in {"sold", "sold_stop_failed"} => sync[m].st # "idle"
            /\ result[m] \in FailedBeforeRecord => ~PersistedBy(m) /\ sync[m].st = "idle")
    /\ [](\A a \in Assets :
            stopRequests[a] =
                Cardinality({m \in Msgs : msg[m].tokenAddress = a /\ sync[m].st # "idle"}))
    /\ [][\A a \in Assets :
            stopRequests'[a] # stopRequests[a] =>
                /\ stopRequests'[a] = stopRequests[a] + 1
                /\ \E m \in Msgs :
                      /\ pc[m] = "rapid_dump" /\ pc'[m] = "stop"
                      /\ msg[m].tokenAddress = a
                      /\ ~PersistedBy(m)
                      /\ \E s \in sells' : s.by = m /\ s.token = a
                      /\ balance'[a] = TokenBalance(balance[a], msg[m].amount)
                      /\ transactions' = transactions + 1
                      /\ sync[m].st = "idle" /\ sync'[m].st = "request"
                      /\ IsZero(balance'[a]) => a \notin runningProcesses']_vars

\* C22, its case: XYZ was in the tracker (its start was accepted), a sell of
\* the whole 100 XYZ wrote its record and brought the balance to zero, the
\* entry was released and the stop request is out.
C22_Witness ==
    /\ pc[1] = "stop"
    /\ msg[1].tokenAddress = "XYZ"
    /\ PersistedBy(1)
    /\ IsZero(balance["XYZ"])
    /\ lastStart = [token |-> "XYZ", outcome |-> "ok_object"]
    /\ pendingStart["XYZ"] = 0
    /\ "XYZ" \notin runningProcesses
    /\ stopRequests["XYZ"] = 1

\* C23: updateTradeInBe stops at the first attempt that succeeds.  When the
\* request of attempt k gets a 2xx response the call has returned with k - 1
\* failed attempts and k - 1 waits before it; the requests sent are always
\* between 1 and `retries`; a call that has returned sends nothing and waits
\* for nothing any more; and every call returns.
C23_StopsAtFirstSuccess ==
    /\ [](\A m \in Msgs :
            sync[m].st # "idle" =>
                /\ 1 <= sync[m].attempt /\ sync[m].attempt <= sync[m].retries
                /\ sync[m].status = "ok" =>
                      /\ sync[m].st = "returned"
                      /\ sync[m].failed = sync[m].attempt - 1
                      /\ sync[m].waits = sync[m].attempt - 1)
    /\ [][\A m \in Msgs : sync[m].st = "returned" => sync'[m] = sync[m]]_vars
    /\ \A m \in Msgs : sync[m].st # "idle" ~> sync[m].st = "returned"

\* C23, its case: with retries = 3 the second request got a 2xx response
\* after one failed attempt and one wait, and the call has returned.
C23_Witness ==
    /\ sync[1].st = "returned"
    /\ sync[1].status = "ok"
    /\ sync[1].retries = 3
    /\ sync[1].attempt = 2
    /\ sync[1].failed = 1
    /\ sync[1].waits = 1

\* C24: an attempt is a failed one, followed by a retry, only when fetch
\* throws.  An attempt that receives a response with a non-2xx status ends
\* the loop as the successful one does: the call has returned, the attempt
\* is not counted as failed, no wait follows it and nothing is sent again;
\* a wait or a failed attempt only ever follows a transport error.
C24_OnlyTransportErrorsRetry ==
    /\ [](\A m \in Msgs :
            /\ sync[m].status = "http_error" =>
                  /\ sync[m].st = "returned"
                  /\ sync[m].failed = sync[m].attempt - 1
                  /\ sync[m].waits = sync[m].attempt - 1
            /\ sync[m].st = "delay" => sync[m].status = "network_error")
    /\ [][\A m \in Msgs :
            /\ sync'[m].failed > sync[m].failed => sync'[m].status = "network_error"
            /\ sync[m].status = "http_error" => sync'[m] = sync[m]]_vars

\* C24, its case: the first request of a call with retries = 3 got a non-2xx
\* response; the call has returned after that one request, without a wait.
C24_Witness ==
    /\ sync[1].st = "returned"
    /\ sync[1].status = "http_error"
    /\ sync[1].retries = 3
    /\ sync[1].attempt = 1
    /\ sync[1].failed = 0
    /\ sync[1].waits = 0

\* C25: the balance of an asset in the Ledger is never negative, whatever
\* the sequence and interleaving of the sell messages (a balance that is
\* not a number is left aside).
C25_BalanceNeverNegative ==
    \A a \in Assets : balance[a].nan \/ balance[a].n >= 0

\* no start request is awaiting its response and no message is being
\* processed (a scan runs to its requests in one step)
Quiescent ==
    /\ \A a \in Assets : pendingStart[a] = 0
    /\ \A m \in Msgs : pc[m] \in {"queued", "done"}

\* C26: in every quiescent state an asset whose balance is zero is absent
\* from the tracker, however the response to a start request and the
\* processing of the sell message for the same asset interleave.
C26_ZeroBalanceNotTracked ==
    Quiescent => \A a \in Assets : IsZero(balance[a]) => a \notin runningProcesses

\* C27: whenever a step of the queue path removes an asset from the tracker,
\* the attempt that removes it has sent a stop request for that asset, in
\* this step or in an earlier one.
C27_ReleaseHasStopRequest ==
    [][\A a \in Assets :
          a \in runningProcesses /\ a \notin runningProcesses' =>
              \E m \in Msgs : /\ msg[m].tokenAddress = a
                              /\ pc[m] = "stop" \/ pc'[m] = "stop"]_vars

\* how an attempt ends when updateSellDetails fails before line 425
FailedInUpdateSellDetails == {"market_error", "price_error", "no_open_buy"}

\* C28: when a sell fails before its record is written (market data fetch,
\* price fetch, open-buy lookup, rapid-dump fetch), the step in which it
\* fails leaves sell records, balances and transactions as they were,
\* starts no report and lets no error escape; afterwards the attempt has no
\* record and no report.
C28_EarlyFailureChangesNothing ==
    /\ [](\A m \in Msgs :
            result[m] \in FailedInUpdateSellDetails =>
                ~PersistedBy(m) /\ sync[m].st = "idle" /\ pc[m] = "done")
    /\ [][\A m \in Msgs :
            result[m] = "none" /\ result'[m] \in FailedInUpdateSellDetails =>
                /\ ledger' = ledger
                /\ sync' = sync
                /\ stopRequests' = stopRequests
                /\ unhandled' = unhandled]_vars

\* C28, its case: a sell of 100 XYZ found market data and prices but no open
\* buy for its recommender; the balance is still 100 and nothing was
\* written, reported or raised.
C28_Witness ==
    /\ result[1] = "no_open_buy"
    /\ msg[1].tokenAddress = "XYZ"
    /\ RatIs(balance["XYZ"], 100, 1)
    /\ sells = {}
    /\ transactions = 0
    /\ sync[1].st = "idle"
    /\ unhandled = {}

\* C29: every delivered message is acknowledged exactly once, whatever the
\* outcome of its processing: a message not yet delivered has no
\* acknowledgment, and from its delivery on, through every step and every
\* ending of its handler, it has exactly one.
C29_AckedExactlyOnce ==
    \A m \in Msgs :
        /\ pc[m] = "queued" => acks[m] = 0 /\ ~acked[m]
        /\ pc[m] # "queued" => acks[m] = 1 /\ acked[m]

\* C29, its case: a message whose sell failed on the market data fetch has
\* ended, acknowledged once.
C29_Witness ==
    /\ pc[1] = "done"
    /\ result[1] = "market_error"
    /\ acks[1] = 1

\* executeSellDecision is past line 157 for message m: the TokenProvider is
\* built from this.walletProvider, fetchPrices is called on it
InExecuteSell(m) == pc[m] \in {"market", "prices", "rapid_dump", "stop"}

\* C30: no sell uses the wallet provider before its initialization has
\* completed: initializeWalletProvider is started only with the runtime it
\* reads already stored in the service, and whenever executeSellDecision
\* runs the wallet provider has been set.
C30_WalletSetBeforeSell ==
    /\ wallet.st # "not_started" => wallet.runtime
    /\ \A m \in Msgs : InExecuteSell(m) => wallet.st = "set"

====
